---- MODULE Spec2Model ----
(***************************************************************************)
(* A model of src/main.py: the training run of main() (staged fine-tuning, *)
(* learning-rate schedule, train / evaluate / test passes, best-checkpoint *)
(* selection), the leave-one-subject-out split get_image_list, and the     *)
(* Distribution Loss as main constructs it.                                *)
(*                                                                         *)
(* Numbers.  A metric returned by evaluate or test is a sum divided by the *)
(* loader's length, which is fixed for a run: the model keeps the sum and  *)
(* reads it in units of 1/len(loader).  np.inf is the value Infinity, and  *)
(* Gt is > extended to it.  The optimizer's step size is                   *)
(* args.learning_rate * gamma^k; the model keeps k.                        *)
(***************************************************************************)
EXTENDS Integers, Sequences, FiniteSets, TLC

\* ------------------------------------------------------------------ bounds
\* args.epoch of the runs of Spec and SpecPass.
MaxEpochs == 3
\* args.epoch of the runs of SpecSched (long enough to pass both boundaries).
MaxSchedEpochs == 122
\* The largest number of batches of the training loader.
MaxBatches == 2
\* Numbers of batches of the validation and test loaders in the runs of Spec
\* (0: an empty list; the metric of an epoch then takes the values of ErrVals).
SelLoaderLens == {0, 1}
\* Per-batch absolute errors |pred - label| the data can produce.
ErrVals == {0, 1, 2}
\* Per-batch (mean_loss, variance_loss, softmax_loss) of a validation batch.
EvalLosses == {<<0, 0, 0>>, <<0, 0, 1>>}
\* Per-batch (mean_loss, variance_loss, softmax_loss) of a training batch.
TrainLosses == {<<1, 0, 1>>, <<0, 1, 2>>}
\* The one validation / training trace of the long runs of SpecSched.
SchedErrVals == {1}
SchedEvalLosses == {<<0, 0, 1>>}
SchedTrainLosses == {<<1, 0, 1>>}
\* The largest number of files os.listdir returns.
MaxFiles == 10
\* The subject ids in the file names, and the values of args.leave_subject.
Subjects == {1, 2}
LeaveSubs == {1, 2, 3}
\* The values of validation_rate, as <<numerator, denominator>>: the
\* VALIDATION_RATE of main (0.1, line 24) and 0.5.
Rates == {<<1, 10>>, <<1, 2>>}
\* The states of the random generator, and those of a process that has not
\* seeded it (numpy then seeds it from the operating system).
RngMod == 16
FreshRng == {0, 5}
\* The age classes of the loss runs are START_AGE..MaxAge (END_AGE is 69 in
\* main), the probabilities are multiples of 1/ProbDen.
MaxAge == 2
ProbDen == 6

\* ------------------------------------------------------- program constants
\* np.inf (lines 218-219): a value above every metric.
Infinity == -1
\* best_mae_epoch = best_loss_epoch = -1 (lines 220-221).
NoEpoch == -1
\* if epoch == 10 (line 223).
UNFREEZE_EPOCH == 10
\* MultiStepLR(optimizer, milestones=[120], gamma=0.1) (line 211).
MILESTONE == 120
\* interval = 1 (line 49).
interval == 1
\* np.random.seed(2019) (line 27).
SEED == 2019
\* LAMBDA_1 = 0.2 and LAMBDA_2 = 0.05 (lines 20-21), in hundredths.
LAMBDA_1 == 20
LAMBDA_2 == 5
\* START_AGE = 0 (line 22).
START_AGE == 0

\* The parameter groups of the model: the head model.fc and the backbone.
Groups == {"fc", "backbone"}

VARIABLES
  pc,              \* position of main()
  args_epoch,      \* args.epoch
  nTrain, nVal, nTest,   \* len(train_loader), len(val_loader), len(test_loader)
  epoch,           \* the loop variable of main
  requires_grad,   \* param.requires_grad, per group
  grad,            \* param.grad, per group: None, or the batches summed in it
  params,          \* the parameter values, per group: the updates applied
  opt_steps,       \* optimizer state: the optimizer.step() calls so far
  lr_pow,          \* optimizer step size = args.learning_rate * gamma^lr_pow
  training,        \* model.training (model.train() / model.eval())
  grad_enabled,    \* torch.is_grad_enabled()
  grad_prev,       \* what torch.no_grad().__enter__ saved
  i,               \* the batch index of the running pass
  batch_loss,      \* train: (mean_loss, variance_loss, softmax_loss) of the batch
  running,         \* train: the four running sums
  acc,             \* evaluate / test: the accumulators of the pass
  mae, loss_val,   \* what evaluate returned to main
  mae_test,        \* what test returned to main
  best_val_mae, best_val_loss, best_mae_epoch, best_loss_epoch,
  model_best_mae, model_best_loss,   \* the checkpoint files: <<>> or <<state_dict>>
  log,             \* the lines appended to {result_directory}/log: which
                   \* line of which epoch and batch, without the numbers in it
  \* history (not program state)
  maeHist, lossHist,     \* the values evaluate returned, per epoch
  trainedParams,         \* the parameters at the end of train(), per epoch
  evalParams,            \* the parameters evaluate read, per epoch
  maeWrites, lossWrites, \* the epochs in which each file was written
  phases,                \* the passes of the current epoch, in order
  passEntry,             \* parameters and optimizer state at the pass's entry
  run2,                  \* a second run: same validation values, other test values
  \* the split (lines 26-28 and get_image_list)
  spc,                   \* position of the process: import, main, split
  listing,               \* os.listdir(image_directory): the file names, in order
  validation_rate,       \* the validation_rate given to get_image_list
  leave_sub,             \* args.leave_subject of this process
  rng,                   \* the state of numpy's global random generator
  train_list, val_list, test_list,   \* what get_image_list returned
  prev,                  \* <<>> or the previous process: its leave_sub and lists
  \* the Distribution Loss
  lpc,                   \* position: construct, apply, done
  criterion1,            \* the MeanVarianceLoss object of line 207
  sample,                \* one sample: its class probabilities and its label
  loss_out               \* (mean_loss, variance_loss) criterion1 returned

mainVars == << pc, args_epoch, nTrain, nVal, nTest, epoch, requires_grad, grad,
               params, opt_steps, lr_pow, training, grad_enabled, grad_prev, i,
               batch_loss, running, acc, mae, loss_val, mae_test,
               best_val_mae, best_val_loss, best_mae_epoch, best_loss_epoch,
               model_best_mae, model_best_loss, log, maeHist, lossHist,
               trainedParams, evalParams, maeWrites, lossWrites, phases,
               passEntry, run2 >>

splitVars == << spc, listing, validation_rate, leave_sub, rng,
                train_list, val_list, test_list, prev >>

lossVars == << lpc, criterion1, sample, loss_out >>

vars == << mainVars, splitVars, lossVars >>

\* ----------------------------------------------------------------- helpers
\* A comparison that also takes an equal value for an improvement.
GtOrEqual(a, b) == a = Infinity \/ (b # Infinity /\ a >= b)

\* a > b for metrics, with np.inf above every number.
Gt(a, b) == IF a = Infinity THEN b # Infinity ELSE (b # Infinity /\ a > b)

NoGrad == [present |-> FALSE, from |-> {}]
ZeroRunning == [loss |-> 0, mean |-> 0, variance |-> 0, softmax |-> 0]
ZeroAcc == [loss |-> 0, mean |-> 0, variance |-> 0, softmax |-> 0, mae |-> 0]

\* lines 213-216: freeze everything, then unfreeze model.fc.
FrozenBackbone == [g \in Groups |-> g = "fc"]

\* An unfreeze that lasts for epoch 10 only.
UnfreezeOnlyAt(rg, e) ==
  IF e = UNFREEZE_EPOCH THEN [g \in Groups |-> TRUE] ELSE FrozenBackbone

\* lines 223-225: at epoch 10 every parameter becomes trainable.
UnfreezeAt(rg, e) == IF e = UNFREEZE_EPOCH THEN [g \in Groups |-> TRUE] ELSE rg

\* The schedule of the commented-out line 210, StepLR(step_size=15, gamma=0.1).
StepLRStep(e) == e \div 15

\* line 226, scheduler.step(epoch) of MultiStepLR(milestones=[120], gamma=0.1):
\* lr = base_lr * gamma ** bisect_right(milestones, epoch).
SchedulerStep(e) == IF e >= MILESTONE THEN 1 ELSE 0

\* A training step that does not zero the gradients.
KeepGrad(gr) == gr

\* line 57, optimizer.zero_grad(): a gradient that exists is zeroed, None stays.
ZeroGrad(gr) == [g \in Groups |-> [present |-> gr[g].present, from |-> {}]]

\* line 58, loss.backward(): the batch's gradient is added to the .grad of
\* every parameter that requires grad; the others are not touched.
Backward(gr, rg, b) ==
  [g \in Groups |-> IF rg[g] THEN [present |-> TRUE, from |-> gr[g].from \cup {b}]
                             ELSE gr[g]]

\* line 59, optimizer.step(): SGD skips a parameter whose .grad is None.
OptimizerStep(p, gr) == [g \in Groups |-> IF gr[g].present THEN p[g] + 1 ELSE p[g]]

\* lines 60-63: the running sums take the batch's losses.
Accumulate(r, bl) ==
  [loss |-> r.loss + bl[1] + bl[2] + bl[3], mean |-> r.mean + bl[1],
   variance |-> r.variance + bl[2], softmax |-> r.softmax + bl[3]]

\* lines 76-79: the running sums are reset after the log line.
ResetRunning(r) == ZeroRunning

\* A scope that leaves gradient tracking off on exit.
NoGradStays(saved) == FALSE

\* torch.no_grad().__exit__ (lines 90, 119): the mode saved on entry is restored.
NoGradExit(saved) == saved

\* A checkpoint step that selects the best-MAE model by the test MAE.
CheckpointByTest(sel, e, m, l, t, sd) ==
  LET wm == Gt(sel.best_val_mae, t)
      wl == Gt(sel.best_val_loss, l)
  IN  [best_val_mae    |-> IF wm THEN t ELSE sel.best_val_mae,
       best_mae_epoch  |-> IF wm THEN e ELSE sel.best_mae_epoch,
       model_best_mae  |-> IF wm THEN <<sd>> ELSE sel.model_best_mae,
       maeWrites       |-> IF wm THEN sel.maeWrites \cup {e} ELSE sel.maeWrites,
       best_val_loss   |-> IF wl THEN l ELSE sel.best_val_loss,
       best_loss_epoch |-> IF wl THEN e ELSE sel.best_loss_epoch,
       model_best_loss |-> IF wl THEN <<sd>> ELSE sel.model_best_loss,
       lossWrites      |-> IF wl THEN sel.lossWrites \cup {e} ELSE sel.lossWrites]

\* A checkpoint step that writes each file when the other criterion improves.
CheckpointSwapped(sel, e, m, l, t, sd) ==
  LET wm == Gt(sel.best_val_mae, m)
      wl == Gt(sel.best_val_loss, l)
  IN  [best_val_mae    |-> IF wm THEN m ELSE sel.best_val_mae,
       best_mae_epoch  |-> IF wm THEN e ELSE sel.best_mae_epoch,
       model_best_mae  |-> IF wl THEN <<sd>> ELSE sel.model_best_mae,
       maeWrites       |-> IF wl THEN sel.maeWrites \cup {e} ELSE sel.maeWrites,
       best_val_loss   |-> IF wl THEN l ELSE sel.best_val_loss,
       best_loss_epoch |-> IF wl THEN e ELSE sel.best_loss_epoch,
       model_best_loss |-> IF wm THEN <<sd>> ELSE sel.model_best_loss,
       lossWrites      |-> IF wm THEN sel.lossWrites \cup {e} ELSE sel.lossWrites]

\* lines 237-244: the two comparisons of the checkpoint step.  sel is the run
\* state, m and l the validation MAE and loss, t the test MAE, sd the
\* model.state_dict().
CheckpointStep(sel, e, m, l, t, sd) ==
  LET wm == Gt(sel.best_val_mae, m)
      wl == Gt(sel.best_val_loss, l)
  IN  [best_val_mae    |-> IF wm THEN m ELSE sel.best_val_mae,
       best_mae_epoch  |-> IF wm THEN e ELSE sel.best_mae_epoch,
       model_best_mae  |-> IF wm THEN <<sd>> ELSE sel.model_best_mae,
       maeWrites       |-> IF wm THEN sel.maeWrites \cup {e} ELSE sel.maeWrites,
       best_val_loss   |-> IF wl THEN l ELSE sel.best_val_loss,
       best_loss_epoch |-> IF wl THEN e ELSE sel.best_loss_epoch,
       model_best_loss |-> IF wl THEN <<sd>> ELSE sel.model_best_loss,
       lossWrites      |-> IF wl THEN sel.lossWrites \cup {e} ELSE sel.lossWrites]

\* lines 218-221: the run state before the loop, with no checkpoint file yet.
InitSel ==
  [best_val_mae |-> Infinity, best_mae_epoch |-> NoEpoch, model_best_mae |-> <<>>,
   maeWrites |-> {},
   best_val_loss |-> Infinity, best_loss_epoch |-> NoEpoch, model_best_loss |-> <<>>,
   lossWrites |-> {}]

\* The run state of main as one record.
Sel ==
  [best_val_mae |-> best_val_mae, best_mae_epoch |-> best_mae_epoch,
   model_best_mae |-> model_best_mae, maeWrites |-> maeWrites,
   best_val_loss |-> best_val_loss, best_loss_epoch |-> best_loss_epoch,
   model_best_loss |-> model_best_loss, lossWrites |-> lossWrites]

\* ------------------------------------------------------------------- Init
\* main() up to line 221, for a run of E epochs.
MainInit(E, NT, NV, NS) ==
  /\ pc = "epoch_top"
  /\ args_epoch = E
  /\ nTrain \in NT
  /\ nVal \in NV
  /\ nTest \in NS
  /\ epoch = 0
  /\ requires_grad = FrozenBackbone
  /\ grad = [g \in Groups |-> NoGrad]
  /\ params = [g \in Groups |-> 0]
  /\ opt_steps = 0
  /\ lr_pow = 0
  /\ training = TRUE
  /\ grad_enabled = TRUE
  /\ grad_prev = TRUE
  /\ i = 0
  /\ batch_loss = <<0, 0, 0>>
  /\ running = ZeroRunning
  /\ acc = ZeroAcc
  /\ mae = 0
  /\ loss_val = 0
  /\ mae_test = 0
  /\ best_val_mae = InitSel.best_val_mae
  /\ best_val_loss = InitSel.best_val_loss
  /\ best_mae_epoch = InitSel.best_mae_epoch
  /\ best_loss_epoch = InitSel.best_loss_epoch
  /\ model_best_mae = InitSel.model_best_mae
  /\ model_best_loss = InitSel.model_best_loss
  /\ log = <<>>
  /\ maeHist = <<>>
  /\ lossHist = <<>>
  /\ trainedParams = <<>>
  /\ evalParams = <<>>
  /\ maeWrites = {}
  /\ lossWrites = {}
  /\ phases = <<>>
  /\ passEntry = [params |-> params, opt_steps |-> opt_steps, grad |-> grad]
  /\ run2 = [sel |-> InitSel, acc |-> 0, mae_test |-> 0]

\* main, the split and the loss before anything ran.
MainIdle == MainInit(MaxEpochs, {0}, {0}, {0})

SplitIdle ==
  /\ spc = "import"
  /\ listing = <<>>
  /\ validation_rate = <<1, 10>>
  /\ leave_sub = 1
  /\ rng = 0
  /\ train_list = <<>> /\ val_list = <<>> /\ test_list = <<>>
  /\ prev = <<>>

NoCriterion == [lambda_1 |-> 0, lambda_2 |-> 0, start_age |-> 0, end_age |-> 0]

LossIdle ==
  /\ lpc = "construct"
  /\ criterion1 = NoCriterion
  /\ sample = [p |-> <<>>, label |-> 0]
  /\ loss_out = [mean_loss |-> 0, variance_loss |-> 0]

Init ==
  /\ MainInit(MaxEpochs, 0..MaxBatches, SelLoaderLens, SelLoaderLens)
  /\ SplitIdle /\ LossIdle

\* ---------------------------------------------------------------- actions
\* lines 222-226 and 44-49: the loop test, the unfreeze at epoch 10,
\* scheduler.step(epoch), and the entry of train().
EpochBegin ==
  /\ pc = "epoch_top"
  /\ epoch < args_epoch
  /\ requires_grad' = UnfreezeAt(requires_grad, epoch)
  /\ lr_pow' = SchedulerStep(epoch)
  /\ training' = TRUE
  /\ running' = ZeroRunning
  /\ i' = 0
  /\ phases' = <<"train">>
  /\ IF nTrain = 0
       THEN /\ pc' = "evaluate"
            /\ trainedParams' = Append(trainedParams, params)
       ELSE /\ pc' = "train_forward"
            /\ UNCHANGED trainedParams
  /\ UNCHANGED << splitVars, lossVars, args_epoch, nTrain, nVal, nTest, epoch, grad, params, opt_steps,
                  grad_enabled, grad_prev, batch_loss, acc, mae, loss_val, mae_test,
                  best_val_mae, best_val_loss, best_mae_epoch, best_loss_epoch,
                  model_best_mae, model_best_loss, log, maeHist, lossHist,
                  evalParams, maeWrites, lossWrites, passEntry, run2 >>

\* lines 51-56: the forward pass and the combined objective of batch i.
TrainForward(TL) ==
  /\ pc = "train_forward"
  /\ \E bl \in TL : batch_loss' = bl
  /\ pc' = "train_zero_grad"
  /\ UNCHANGED << splitVars, lossVars, args_epoch, nTrain, nVal, nTest, epoch, requires_grad, grad,
                  params, opt_steps, lr_pow, training, grad_enabled, grad_prev, i,
                  running, acc, mae, loss_val, mae_test,
                  best_val_mae, best_val_loss, best_mae_epoch, best_loss_epoch,
                  model_best_mae, model_best_loss, log, maeHist, lossHist,
                  trainedParams, evalParams, maeWrites, lossWrites, phases,
                  passEntry, run2 >>

\* line 57: optimizer.zero_grad().
TrainZeroGrad ==
  /\ pc = "train_zero_grad"
  /\ grad' = ZeroGrad(grad)
  /\ pc' = "train_backward"
  /\ UNCHANGED << splitVars, lossVars, args_epoch, nTrain, nVal, nTest, epoch, requires_grad,
                  params, opt_steps, lr_pow, training, grad_enabled, grad_prev, i,
                  batch_loss, running, acc, mae, loss_val, mae_test,
                  best_val_mae, best_val_loss, best_mae_epoch, best_loss_epoch,
                  model_best_mae, model_best_loss, log, maeHist, lossHist,
                  trainedParams, evalParams, maeWrites, lossWrites, phases,
                  passEntry, run2 >>

\* line 58: loss.backward().  With gradient tracking off the loss has no graph
\* and backward raises.
TrainBackward ==
  /\ pc = "train_backward"
  /\ IF grad_enabled
       THEN /\ grad' = Backward(grad, requires_grad, <<epoch, i>>)
            /\ pc' = "train_step"
       ELSE /\ pc' = "crashed"
            /\ UNCHANGED grad
  /\ UNCHANGED << splitVars, lossVars, args_epoch, nTrain, nVal, nTest, epoch, requires_grad,
                  params, opt_steps, lr_pow, training, grad_enabled, grad_prev, i,
                  batch_loss, running, acc, mae, loss_val, mae_test,
                  best_val_mae, best_val_loss, best_mae_epoch, best_loss_epoch,
                  model_best_mae, model_best_loss, log, maeHist, lossHist,
                  trainedParams, evalParams, maeWrites, lossWrites, phases,
                  passEntry, run2 >>

\* line 59: optimizer.step().
TrainStep ==
  /\ pc = "train_step"
  /\ params' = OptimizerStep(params, grad)
  /\ opt_steps' = opt_steps + 1
  /\ pc' = "train_log"
  /\ UNCHANGED << splitVars, lossVars, args_epoch, nTrain, nVal, nTest, epoch, requires_grad, grad,
                  lr_pow, training, grad_enabled, grad_prev, i,
                  batch_loss, running, acc, mae, loss_val, mae_test,
                  best_val_mae, best_val_loss, best_mae_epoch, best_loss_epoch,
                  model_best_mae, model_best_loss, log, maeHist, lossHist,
                  trainedParams, evalParams, maeWrites, lossWrites, phases,
                  passEntry, run2 >>

\* lines 60-79: the running sums, the log line every `interval` batches and
\* the reset; then the next batch, or the return of train().
TrainLog ==
  /\ pc = "train_log"
  /\ LET r == Accumulate(running, batch_loss)
     IN  IF (i + 1) % interval = 0
           THEN /\ log' = Append(log, <<"batch", epoch, i>>)
                /\ running' = ResetRunning(r)
           ELSE /\ running' = r
                /\ UNCHANGED log
  /\ i' = i + 1
  /\ IF i + 1 < nTrain
       THEN /\ pc' = "train_forward"
            /\ UNCHANGED << trainedParams, batch_loss >>
       ELSE /\ pc' = "evaluate"
            /\ trainedParams' = Append(trainedParams, params)
            /\ batch_loss' = <<0, 0, 0>>     \* the locals of train() are gone
  /\ UNCHANGED << splitVars, lossVars, args_epoch, nTrain, nVal, nTest, epoch, requires_grad, grad,
                  params, opt_steps, lr_pow, training, grad_enabled, grad_prev,
                  acc, mae, loss_val, mae_test,
                  best_val_mae, best_val_loss, best_mae_epoch, best_loss_epoch,
                  model_best_mae, model_best_loss, maeHist, lossHist,
                  evalParams, maeWrites, lossWrites, phases, passEntry, run2 >>

\* torch.no_grad().__enter__ (lines 90, 119): gradient tracking is switched off.
NoGradEnter(ge) == FALSE

\* lines 94-107 / 123-129: the forward pass, the losses and the decoding of one
\* evaluation batch read the parameters; nothing writes them.
EvalForward(p) == p

\* lines 100-107: the accumulators of evaluate take one batch.
EvalAccumulate(a, bl, err) ==
  [loss |-> a.loss + bl[1] + bl[2] + bl[3], mean |-> a.mean + bl[1],
   variance |-> a.variance + bl[2], softmax |-> a.softmax + bl[3],
   mae |-> a.mae + err]

\* lines 82-90: the entry of evaluate(): model.eval(), the accumulators, and
\* the no_grad scope.
EvaluateEnter ==
  /\ pc = "evaluate"
  /\ training' = FALSE
  /\ acc' = ZeroAcc
  /\ grad_prev' = grad_enabled
  /\ grad_enabled' = NoGradEnter(grad_enabled)
  /\ i' = 0
  /\ phases' = Append(phases, "evaluate")
  /\ evalParams' = Append(evalParams, params)
  /\ passEntry' = [params |-> params, opt_steps |-> opt_steps, grad |-> grad]
  /\ pc' = IF nVal = 0 THEN "evaluate_return" ELSE "evaluate_batch"
  /\ UNCHANGED << splitVars, lossVars, args_epoch, nTrain, nVal, nTest, epoch, requires_grad, grad,
                  params, opt_steps, lr_pow, batch_loss, running,
                  mae, loss_val, mae_test,
                  best_val_mae, best_val_loss, best_mae_epoch, best_loss_epoch,
                  model_best_mae, model_best_loss, log, maeHist, lossHist,
                  trainedParams, maeWrites, lossWrites, run2 >>

\* lines 91-107: one validation batch.
EvaluateBatch(EV, EL) ==
  /\ pc = "evaluate_batch"
  /\ \E err \in EV, bl \in EL : acc' = EvalAccumulate(acc, bl, err)
  /\ params' = EvalForward(params)
  /\ i' = i + 1
  /\ pc' = IF i + 1 < nVal THEN "evaluate_batch" ELSE "evaluate_return"
  /\ UNCHANGED << splitVars, lossVars, args_epoch, nTrain, nVal, nTest, epoch, requires_grad, grad,
                  opt_steps, lr_pow, training, grad_enabled, grad_prev,
                  batch_loss, running, mae, loss_val, mae_test,
                  best_val_mae, best_val_loss, best_mae_epoch, best_loss_epoch,
                  model_best_mae, model_best_loss, log, maeHist, lossHist,
                  trainedParams, evalParams, maeWrites, lossWrites, phases,
                  passEntry, run2 >>

\* An exception inside the with block of evaluate or test (an unreadable
\* image, a device error): the scope is left, the exception ends main.
PassError ==
  /\ pc \in {"evaluate_batch", "test_batch"}
  /\ grad_enabled' = NoGradExit(grad_prev)
  /\ pc' = "crashed"
  /\ UNCHANGED << splitVars, lossVars, args_epoch, nTrain, nVal, nTest, epoch, requires_grad, grad,
                  params, opt_steps, lr_pow, training, grad_prev, i,
                  batch_loss, running, acc, mae, loss_val, mae_test,
                  best_val_mae, best_val_loss, best_mae_epoch, best_loss_epoch,
                  model_best_mae, model_best_loss, log, maeHist, lossHist,
                  trainedParams, evalParams, maeWrites, lossWrites, phases,
                  passEntry, run2 >>

\* lines 108-112 and 228: the scope is left and the averages are returned;
\* with an empty loader the division raises ZeroDivisionError.
EvaluateReturn ==
  /\ pc = "evaluate_return"
  /\ grad_enabled' = NoGradExit(grad_prev)
  /\ IF nVal = 0
       THEN /\ pc' = "crashed"
            /\ UNCHANGED << mae, loss_val, maeHist, lossHist >>
       ELSE /\ pc' = "test"
            /\ mae' = acc.mae
            /\ loss_val' = acc.loss
            /\ maeHist' = Append(maeHist, acc.mae)
            /\ lossHist' = Append(lossHist, acc.loss)
  /\ UNCHANGED << splitVars, lossVars, args_epoch, nTrain, nVal, nTest, epoch, requires_grad, grad,
                  params, opt_steps, lr_pow, training, grad_prev, i,
                  batch_loss, running, acc, mae_test,
                  best_val_mae, best_val_loss, best_mae_epoch, best_loss_epoch,
                  model_best_mae, model_best_loss, log,
                  trainedParams, evalParams, maeWrites, lossWrites, phases,
                  passEntry, run2 >>

\* lines 115-119: the entry of test().
TestEnter ==
  /\ pc = "test"
  /\ training' = FALSE
  /\ acc' = ZeroAcc
  /\ grad_prev' = grad_enabled
  /\ grad_enabled' = NoGradEnter(grad_enabled)
  /\ i' = 0
  /\ phases' = Append(phases, "test")
  /\ passEntry' = [params |-> params, opt_steps |-> opt_steps, grad |-> grad]
  /\ run2' = [run2 EXCEPT !.acc = 0]
  /\ pc' = IF nTest = 0 THEN "test_return" ELSE "test_batch"
  /\ UNCHANGED << splitVars, lossVars, args_epoch, nTrain, nVal, nTest, epoch, requires_grad, grad,
                  params, opt_steps, lr_pow, batch_loss, running,
                  mae, loss_val, mae_test,
                  best_val_mae, best_val_loss, best_mae_epoch, best_loss_epoch,
                  model_best_mae, model_best_loss, log, maeHist, lossHist,
                  trainedParams, evalParams, maeWrites, lossWrites >>

\* lines 120-129: one test batch (in the second run, with its own error).
TestBatch(EV) ==
  /\ pc = "test_batch"
  /\ \E err \in EV, err2 \in EV :
       /\ acc' = [acc EXCEPT !.mae = @ + err]
       /\ run2' = [run2 EXCEPT !.acc = @ + err2]
  /\ params' = EvalForward(params)
  /\ i' = i + 1
  /\ pc' = IF i + 1 < nTest THEN "test_batch" ELSE "test_return"
  /\ UNCHANGED << splitVars, lossVars, args_epoch, nTrain, nVal, nTest, epoch, requires_grad, grad,
                  opt_steps, lr_pow, training, grad_enabled, grad_prev,
                  batch_loss, running, mae, loss_val, mae_test,
                  best_val_mae, best_val_loss, best_mae_epoch, best_loss_epoch,
                  model_best_mae, model_best_loss, log, maeHist, lossHist,
                  trainedParams, evalParams, maeWrites, lossWrites, phases,
                  passEntry >>

\* lines 130 and 229: the scope is left and the average is returned.
TestReturn ==
  /\ pc = "test_return"
  /\ grad_enabled' = NoGradExit(grad_prev)
  /\ IF nTest = 0
       THEN /\ pc' = "crashed"
            /\ UNCHANGED << mae_test, run2 >>
       ELSE /\ pc' = "checkpoint"
            /\ mae_test' = acc.mae
            /\ run2' = [run2 EXCEPT !.mae_test = run2.acc]
  /\ UNCHANGED << splitVars, lossVars, args_epoch, nTrain, nVal, nTest, epoch, requires_grad, grad,
                  params, opt_steps, lr_pow, training, grad_prev, i,
                  batch_loss, running, acc, mae, loss_val,
                  best_val_mae, best_val_loss, best_mae_epoch, best_loss_epoch,
                  model_best_mae, model_best_loss, log, maeHist, lossHist,
                  trainedParams, evalParams, maeWrites, lossWrites, phases,
                  passEntry >>

\* lines 230-244: the two epoch lines of the log and the checkpoint step; then
\* the next value of the loop variable.
Checkpoint ==
  /\ pc = "checkpoint"
  /\ log' = log \o << <<"epoch", epoch, 0>>, <<"mae_test", epoch, 0>> >>
  /\ LET s == CheckpointStep(Sel, epoch, mae, loss_val, mae_test, params)
     IN  /\ best_val_mae' = s.best_val_mae
         /\ best_mae_epoch' = s.best_mae_epoch
         /\ model_best_mae' = s.model_best_mae
         /\ maeWrites' = s.maeWrites
         /\ best_val_loss' = s.best_val_loss
         /\ best_loss_epoch' = s.best_loss_epoch
         /\ model_best_loss' = s.model_best_loss
         /\ lossWrites' = s.lossWrites
  /\ run2' = [sel |-> CheckpointStep(run2.sel, epoch, mae, loss_val,
                                      run2.mae_test, params),
               acc |-> 0, mae_test |-> 0]
  /\ phases' = Append(phases, "checkpoint")
  /\ epoch' = epoch + 1
  /\ pc' = "epoch_top"
  /\ UNCHANGED << splitVars, lossVars, args_epoch, nTrain, nVal, nTest, requires_grad, grad,
                  params, opt_steps, lr_pow, training, grad_enabled, grad_prev, i,
                  batch_loss, running, acc, mae, loss_val, mae_test,
                  maeHist, lossHist, trainedParams, evalParams, passEntry >>

\* lines 245-249: after the last epoch the best values are logged.
Finish ==
  /\ pc = "epoch_top"
  /\ epoch >= args_epoch
  /\ log' = Append(log, <<"best", best_loss_epoch, best_mae_epoch>>)
  /\ pc' = "done"
  /\ UNCHANGED << splitVars, lossVars, args_epoch, nTrain, nVal, nTest, epoch, requires_grad, grad,
                  params, opt_steps, lr_pow, training, grad_enabled, grad_prev, i,
                  batch_loss, running, acc, mae, loss_val, mae_test,
                  best_val_mae, best_val_loss, best_mae_epoch, best_loss_epoch,
                  model_best_mae, model_best_loss, maeHist, lossHist,
                  trainedParams, evalParams, maeWrites, lossWrites, phases,
                  passEntry, run2 >>

\* ----------------------------------------------------------- specifications
\* main() on the data TL (training losses), EV (errors), EL (validation losses).
MainNext(TL, EV, EL) ==
  \/ EpochBegin
  \/ TrainForward(TL)
  \/ TrainZeroGrad
  \/ TrainBackward
  \/ TrainStep
  \/ TrainLog
  \/ EvaluateEnter
  \/ EvaluateBatch(EV, EL)
  \/ EvaluateReturn
  \/ TestEnter
  \/ TestBatch(EV)
  \/ TestReturn
  \/ PassError
  \/ Checkpoint
  \/ Finish

Next == MainNext(TrainLosses, ErrVals, EvalLosses)

Spec == Init /\ [][Next]_vars

\* A long run on one fixed validation and training trace.
InitSched ==
  /\ MainInit(MaxSchedEpochs, 1..MaxBatches, {1}, {1})
  /\ SplitIdle /\ LossIdle

NextSched == MainNext(SchedTrainLosses, SchedErrVals, SchedEvalLosses)

SpecSched == InitSched /\ [][NextSched]_vars

\* Runs with loaders of every length up to MaxBatches, on one validation trace.
InitPass ==
  /\ MainInit(MaxEpochs, 0..MaxBatches, 0..MaxBatches, 0..MaxBatches)
  /\ SplitIdle /\ LossIdle

NextPass == MainNext(TrainLosses, SchedErrVals, SchedEvalLosses)

SpecPass == InitPass /\ [][NextPass]_vars

\* ------------------------------------------------------------------ split
\* A file name: the three digits of the subject id, then the rest of the name
\* (here the file's number, which keeps the names of a directory distinct).
FileName(subject, k) ==
  << (subject \div 100) % 10, (subject \div 10) % 10, subject % 10, k >>

\* line 139: subject = int(fn[:3]).
SubjectOf(fn) == 100 * fn[1] + 10 * fn[2] + fn[3]

\* The directories of n files.
Listings(n) ==
  { [k \in 1..n |-> FileName(sub[k], k)] : sub \in [1..n -> Subjects] }

\* One step of the generator.
RngNext(s) == (5 * s + 3) % RngMod

\* A process that does not seed the generator.
NoSeed(s) == s

\* lines 26-28: np.random.seed(2019).
Seed(s) == SEED % RngMod

\* Draws with replacement: k indices, each from all of 0..num-1.
RECURSIVE DrawRepeated(_, _, _)
DrawRepeated(s, pool, k) ==
  IF k = 0
    THEN [picked |-> {}, state |-> s]
    ELSE LET s1 == RngNext(s)
             rest == DrawRepeated(s1, pool, k - 1)
         IN  [picked |-> {pool[(s1 % Len(pool)) + 1]} \cup rest.picked,
              state |-> rest.state]

\* k draws without replacement from the sequence pool, from generator state s:
\* the set of the values drawn and the state after.
RECURSIVE Draw(_, _, _)
Draw(s, pool, k) ==
  IF k = 0
    THEN [picked |-> {}, state |-> s]
    ELSE LET s1 == RngNext(s)
             at == (s1 % Len(pool)) + 1
             rest == Draw(s1, SubSeq(pool, 1, at - 1) \o SubSeq(pool, at + 1, Len(pool)),
                          k - 1)
         IN  [picked |-> {pool[at]} \cup rest.picked, state |-> rest.state]

\* np.random.choice(num, k, replace=True).
ChoiceWithReplacement(s, num, k) == DrawRepeated(s, [j \in 1..num |-> j - 1], k)

\* line 145: np.random.choice(num, k, replace=False).
Choice(s, num, k) == Draw(s, [j \in 1..num |-> j - 1], k)

\* line 145: int(num * validation_rate).
ValidationCount(num, rate) == (num * rate[1]) \div rate[2]

\* lines 133-154: get_image_list on the listing ls, from generator state s.
GetImageListOf(ls, leave, rate, s) ==
  LET train_val == SelectSeq(ls, LAMBDA fn : SubjectOf(fn) # leave)
      num == Len(train_val)
      ch == Choice(s, num, ValidationCount(num, rate))
      at(fn) == CHOOSE j \in 1..num : train_val[j] = fn
  IN  [train |-> SelectSeq(train_val, LAMBDA fn : (at(fn) - 1) \notin ch.picked),
       val   |-> SelectSeq(train_val, LAMBDA fn : (at(fn) - 1) \in ch.picked),
       test  |-> SelectSeq(ls, LAMBDA fn : SubjectOf(fn) = leave),
       state |-> ch.state]

\* A process starts on some directory, with some arguments.
InitSplit ==
  /\ MainIdle /\ LossIdle
  /\ spc = "import"
  /\ \E n \in 0..MaxFiles : listing \in Listings(n)
  /\ validation_rate \in Rates
  /\ leave_sub \in LeaveSubs
  /\ rng \in FreshRng
  /\ train_list = <<>> /\ val_list = <<>> /\ test_list = <<>>
  /\ prev = <<>>

\* lines 26-28: the import of the module seeds the generators.
ModuleImport ==
  /\ spc = "import"
  /\ rng' = Seed(rng)
  /\ spc' = "main"
  /\ UNCHANGED << mainVars, lossVars, listing, validation_rate, leave_sub,
                  train_list, val_list, test_list, prev >>

\* lines 177-178: main calls get_image_list.
GetImageList ==
  /\ spc = "main"
  /\ LET r == GetImageListOf(listing, leave_sub, validation_rate, rng)
     IN  /\ train_list' = r.train
         /\ val_list' = r.val
         /\ test_list' = r.test
         /\ rng' = r.state
  /\ spc' = "split"
  /\ UNCHANGED << mainVars, lossVars, listing, validation_rate, leave_sub, prev >>

\* The program is launched again on the same directory, with some leave-out
\* subject (lines 157-172, 251-252).
Relaunch ==
  /\ spc = "split"
  /\ prev' = << [leave_sub |-> leave_sub, train |-> train_list,
                 val |-> val_list, test |-> test_list] >>
  /\ leave_sub' \in LeaveSubs
  /\ rng' \in FreshRng
  /\ train_list' = <<>> /\ val_list' = <<>> /\ test_list' = <<>>
  /\ spc' = "import"
  /\ UNCHANGED << mainVars, lossVars, listing, validation_rate >>

NextSplit == ModuleImport \/ GetImageList \/ Relaunch

SpecSplit == InitSplit /\ [][NextSplit]_vars

\* ------------------------------------------------------------------- loss
\* MeanVarianceLoss.__init__(lambda_1, lambda_2, start_age, end_age).
MeanVarianceLossInit(l1, l2, sa, ea) ==
  [lambda_1 |-> l1, lambda_2 |-> l2, start_age |-> sa, end_age |-> ea]

\* The sum of a sequence of numbers.
RECURSIVE SumSeq(_)
SumSeq(q) == IF q = <<>> THEN 0 ELSE Head(q) + SumSeq(Tail(q))

\* The expected age mu of the distribution p (numerators over ProbDen) on the
\* ages start_age, start_age + 1, ..., times ProbDen.
MeanNum(c, p) == SumSeq([k \in 1..Len(p) |-> p[k] * (c.start_age + k - 1)])

\* (mu - label)^2, times ProbDen^2: mean_loss before its weight, times
\* 2 * ProbDen^2.
SquaredErrorNum(c, p, label) ==
  (MeanNum(c, p) - label * ProbDen) * (MeanNum(c, p) - label * ProbDen)

\* sigma^2 = sum_k p_k (a_k - mu)^2, times ProbDen^3.
VarianceNum(c, p) ==
  SumSeq([k \in 1..Len(p) |->
            p[k] * ((c.start_age + k - 1) * ProbDen - MeanNum(c, p))
                 * ((c.start_age + k - 1) * ProbDen - MeanNum(c, p))])

\* MeanVarianceLoss.forward on one sample: lambda_1 weighs mean_loss and
\* lambda_2 weighs variance_loss.  mean_loss is in units of
\* 1/(200 ProbDen^2), variance_loss in units of 1/(100 ProbDen^3).
MeanVarianceLossForward(c, p, label) ==
  [mean_loss |-> c.lambda_1 * SquaredErrorNum(c, p, label),
   variance_loss |-> c.lambda_2 * VarianceNum(c, p)]

\* The distributions over the ages START_AGE..MaxAge and the labels.
Distributions ==
  { p \in [1..(MaxAge - START_AGE + 1) -> 0..ProbDen] : SumSeq(p) = ProbDen }

InitLoss ==
  /\ MainIdle /\ SplitIdle
  /\ lpc = "construct"
  /\ criterion1 = NoCriterion
  /\ sample \in [p : Distributions, label : START_AGE..MaxAge]
  /\ loss_out = [mean_loss |-> 0, variance_loss |-> 0]

\* line 207: criterion1 = MeanVarianceLoss(LAMBDA_2, LAMBDA_1, START_AGE, END_AGE).
ConstructCriterion1 ==
  /\ lpc = "construct"
  /\ criterion1' = MeanVarianceLossInit(LAMBDA_2, LAMBDA_1, START_AGE, MaxAge)
  /\ lpc' = "apply"
  /\ UNCHANGED << mainVars, splitVars, sample, loss_out >>

\* lines 54 and 97: mean_loss, variance_loss = criterion1(output, labels).
ApplyCriterion1 ==
  /\ lpc = "apply"
  /\ loss_out' = MeanVarianceLossForward(criterion1, sample.p, sample.label)
  /\ lpc' = "done"
  /\ UNCHANGED << mainVars, splitVars, criterion1, sample >>

NextLoss == ConstructCriterion1 \/ ApplyCriterion1

SpecLoss == InitLoss /\ [][NextLoss]_vars

\* ------------------------------------------------------------------ claims
\* The least value of a non-empty sequence, and the 0-based index of the first
\* occurrence of a value in it.
MinOf(h) == CHOOSE m \in {h[k] : k \in DOMAIN h} : \A k \in DOMAIN h : m <= h[k]
FirstIndex(h, v) ==
  (CHOOSE k \in DOMAIN h : h[k] = v /\ \A j \in 1..(k - 1) : h[j] # v) - 1

\* The values of the epochs whose checkpoint step is done: epochs 0..epoch-1.
Seen(h) == SubSeq(h, 1, epoch)

\* bv, be are the best value and epoch recorded for the per-epoch values h.
BestIsFirstMin(bv, be, h) ==
  IF epoch = 0
    THEN bv = Infinity /\ be = NoEpoch
    ELSE bv = MinOf(Seen(h)) /\ be = FirstIndex(Seen(h), MinOf(Seen(h)))

\* C1: for validation MAE and for validation loss, each on its own, the run
\* state starts at (+infinity, -1), and after the checkpoint step of epoch e the
\* best value is the minimum of the values of epochs 0..e and the best epoch is
\* the index of the first occurrence of that minimum.
C1_BestIsPrefixMin ==
  /\ Len(maeHist) >= epoch /\ Len(lossHist) >= epoch
  /\ BestIsFirstMin(best_val_mae, best_mae_epoch, maeHist)
  /\ BestIsFirstMin(best_val_loss, best_loss_epoch, lossHist)

\* A finished run with a tie of the MAE minimum (epochs 1 and 2) whose best
\* epochs differ between the two criteria.
C1_Witness ==
  /\ pc = "done"
  /\ maeHist = <<1, 0, 0>> /\ best_mae_epoch = 1
  /\ lossHist = <<0, 1, 0>> /\ best_loss_epoch = 0

\* The epochs among 0..epoch-1 whose value is strictly below every earlier one.
StrictImprovements(h) ==
  {e \in 0..(epoch - 1) : \A j \in 1..e : h[e + 1] < h[j]}

\* f is the checkpoint file of the criterion with best epoch be.
FileIsBestEpoch(f, be) ==
  IF be = NoEpoch
    THEN f = <<>>
    ELSE f = <<trainedParams[be + 1]>> /\ f = <<evalParams[be + 1]>>

\* C2: each checkpoint file is written in exactly the epochs whose value of
\* its own criterion is strictly below the best seen before; so the file holds
\* the parameters as they were at the end of training in its best epoch, the
\* parameters evaluate read in that epoch, and does not exist while the best
\* epoch is -1.
C2_FileWrittenIffImproves ==
  /\ Len(maeHist) >= epoch /\ Len(lossHist) >= epoch
  /\ maeWrites = StrictImprovements(maeHist)
  /\ lossWrites = StrictImprovements(lossHist)
  /\ FileIsBestEpoch(model_best_mae, best_mae_epoch)
  /\ FileIsBestEpoch(model_best_loss, best_loss_epoch)

\* A finished run that trained in every epoch, wrote model_best_mae in epochs
\* 0 and 2, skipped it in epoch 1, and wrote model_best_loss in epoch 0 only.
C2_Witness ==
  /\ pc = "done" /\ nTrain = 2
  /\ maeWrites = {0, 2} /\ lossWrites = {0}
  /\ model_best_mae = <<trainedParams[3]>> /\ model_best_loss = <<trainedParams[1]>>
  /\ trainedParams[1] # trainedParams[3]

\* C7: the run and a second run that sees the same validation values and other
\* test values agree on the best values, the best epochs, the epochs in which
\* each file is written and the files; and test runs once in every epoch,
\* after evaluate and before the checkpoint step.
C7_TestDoesNotSelect ==
  /\ run2.sel = Sel
  /\ pc = "checkpoint" => phases = <<"train", "evaluate", "test">>
  /\ (pc = "epoch_top" /\ epoch > 0) =>
        phases = <<"train", "evaluate", "test", "checkpoint">>

\* The checkpoint step of epoch 1 is about to run, the two runs have different
\* test MAEs, and the test MAE is below the best validation MAE.
C7_Witness ==
  /\ pc = "checkpoint" /\ epoch = 1
  /\ mae_test # run2.mae_test
  /\ mae_test < best_val_mae /\ mae >= best_val_mae

InPass == pc \in {"evaluate_batch", "evaluate_return", "test_batch", "test_return"}

\* C6: from the entry to the exit of evaluate and of test the parameters, the
\* gradients and the optimizer state are those of the entry and gradient
\* tracking is off; it is on again after the exit, also after an exit by an
\* error, and the training steps of the next epoch compute gradients.
C6_PassesReadOnly ==
  /\ InPass => ~grad_enabled
  /\ ~InPass => grad_enabled
  /\ (InPass \/ pc \in {"test", "checkpoint"}) =>
        /\ params = passEntry.params
        /\ opt_steps = passEntry.opt_steps
        /\ grad = passEntry.grad
  /\ pc = "crashed" => params = passEntry.params /\ opt_steps = passEntry.opt_steps
  /\ pc = "train_step" => grad["fc"] = [present |-> TRUE, from |-> {<<epoch, i>>}]

\* A training step of epoch 1, after an evaluate and a test of two batches each.
C6_Witness ==
  /\ pc = "train_step" /\ epoch = 1
  /\ nVal = 2 /\ nTest = 2

\* The "batch" lines the log holds for epoch e, in order.
BatchLines(e) ==
  SelectSeq(log, LAMBDA ln : ln[1] = "batch" /\ ln[2] = e)

InTrain ==
  pc \in {"train_forward", "train_zero_grad", "train_backward", "train_step", "train_log"}

\* C9: in a training epoch the batches are taken one after another; the
\* gradient an optimizer step applies comes from its own batch only; batch i
\* is stepped once, after batches 0..i-1; the running sums are zero at the
\* start of a batch and one log line is appended per batch.
C9_OneStepPerBatch ==
  /\ pc = "train_forward" => running = ZeroRunning
  /\ pc = "train_step" =>
        \A g \in Groups : grad[g].present => grad[g].from = {<<epoch, i>>}
  /\ (InTrain /\ pc # "train_log") =>
        /\ i < nTrain
        /\ opt_steps = epoch * nTrain + i
        /\ BatchLines(epoch) = [k \in 1..i |-> <<"batch", epoch, k - 1>>]
  /\ pc = "train_log" => opt_steps = epoch * nTrain + i + 1
  /\ pc \in {"evaluate", "evaluate_batch", "evaluate_return", "test", "test_batch",
             "test_return", "checkpoint"} =>
        /\ opt_steps = (epoch + 1) * nTrain
        /\ BatchLines(epoch) = [k \in 1..nTrain |-> <<"batch", epoch, k - 1>>]

\* The optimizer step of the second batch of epoch 1 is about to run.
C9_Witness ==
  /\ pc = "train_step" /\ epoch = 1 /\ i = 1
  /\ grad["fc"].from = {<<1, 1>>}

\* C3: up to the unfreeze at the top of epoch 10 only model.fc is trainable,
\* the backbone has no gradient and the optimizer leaves it as it was; from
\* then on every parameter is trainable and updated by every optimizer step,
\* and no parameter is frozen again.
C3_StagedFineTuning ==
  /\ (epoch < UNFREEZE_EPOCH \/ (epoch = UNFREEZE_EPOCH /\ pc = "epoch_top")) =>
        /\ requires_grad = FrozenBackbone
        /\ grad["backbone"] = NoGrad
        /\ params["backbone"] = 0
  /\ (epoch > UNFREEZE_EPOCH \/ (epoch = UNFREEZE_EPOCH /\ pc # "epoch_top")) =>
        /\ \A g \in Groups : requires_grad[g]
        /\ params["backbone"] = opt_steps - UNFREEZE_EPOCH * nTrain
  /\ params["fc"] = opt_steps

\* An optimizer step of epoch 11 has updated the backbone.
C3_Witness ==
  /\ pc = "train_log" /\ epoch = UNFREEZE_EPOCH + 1
  /\ params["backbone"] = nTrain + i + 1

\* C10: in every training step of epochs 0..119 the step size is the initial
\* learning rate, in every training step of epochs 120 and later it is 0.1
\* times it; the factor is applied once and the step size never rises again.
C10_LearningRate ==
  /\ lr_pow \in {0, 1}
  /\ InTrain => lr_pow = (IF epoch < MILESTONE THEN 0 ELSE 1)
  /\ epoch > MILESTONE => lr_pow = 1
  /\ epoch < MILESTONE => lr_pow = 0

\* A training step of epoch 121 with the step size at 0.1 times the initial one.
C10_Witness == pc = "train_step" /\ epoch = MILESTONE + 1 /\ lr_pow = 1

\* The set of the elements of a sequence.
Range(q) == {q[k] : k \in DOMAIN q}

\* A sequence without a repeated element.
NoRepeat(q) == \A j, k \in DOMAIN q : q[j] = q[k] => j = k

\* The files of the listing with subject id sub.
FilesOf(sub) == {fn \in Range(listing) : SubjectOf(fn) = sub}

\* The three lists of t partition the listing: the files of subject leave are
\* the test list, floor(validation_rate * P) files of the other P are the
\* validation list, the rest of them the training list.
IsSplit(t, leave) ==
  LET pool == Range(listing) \ FilesOf(leave)
  IN  /\ NoRepeat(t.train \o t.val \o t.test)
      /\ Range(t.train) \cup Range(t.val) \cup Range(t.test) = Range(listing)
      /\ Range(t.test) = FilesOf(leave)
      /\ Range(t.val) \subseteq pool
      /\ Range(t.train) = pool \ Range(t.val)
      /\ Len(t.val) = (Cardinality(pool) * validation_rate[1]) \div validation_rate[2]

Returned == [train |-> train_list, val |-> val_list, test |-> test_list]

\* C4: for every listing and leave-out subject the three lists get_image_list
\* returns partition the listed files as IsSplit says; and against a call with
\* another leave-out subject, the files that entered the test list are those
\* of the new subject and the files that left it those of the old one.
C4_SplitPartitions ==
  spc = "split" =>
    /\ IsSplit(Returned, leave_sub)
    /\ \A k \in DOMAIN prev :
         /\ IsSplit(prev[k], prev[k].leave_sub)
         /\ prev[k].leave_sub # leave_sub =>
              /\ Range(test_list) \ Range(prev[k].test) = FilesOf(leave_sub)
              /\ Range(prev[k].test) \ Range(test_list) = FilesOf(prev[k].leave_sub)

\* A second call with another leave-out subject, each call with files in all
\* three lists, and at least two validation files in this one.
C4_Witness ==
  /\ spc = "split" /\ prev # <<>>
  /\ prev[1].leave_sub = 1 /\ leave_sub = 2
  /\ Len(test_list) >= 2 /\ Len(val_list) >= 2 /\ Len(train_list) >= 2
  /\ Len(prev[1].test) >= 2 /\ Len(prev[1].val) >= 1

\* C5: two processes, each seeding the generator with 2019 on import, that call
\* get_image_list on the same listing with the same leave-out subject and
\* validation rate get the same three lists.
C5_SplitDeterministic ==
  (spc = "split" /\ prev # <<>> /\ prev[1].leave_sub = leave_sub) =>
     /\ prev[1].train = train_list
     /\ prev[1].val = val_list
     /\ prev[1].test = test_list

\* A second process with the same leave-out subject whose split has validation
\* and training files, so that the draw decided it.
C5_Witness ==
  /\ spc = "split" /\ prev # <<>> /\ prev[1].leave_sub = leave_sub
  /\ Len(val_list) >= 2 /\ Len(train_list) >= 2 /\ Len(test_list) >= 1

\* C8: in the Distribution Loss as main constructs and uses it, mean_loss
\* is the weight LAMBDA_1 = 0.2 times (mu - label)^2 / 2 and variance_loss is
\* the weight LAMBDA_2 = 0.05 times sigma^2.
C8_LossWeights ==
  lpc = "done" =>
    /\ loss_out.mean_loss = LAMBDA_1 * SquaredErrorNum(criterion1, sample.p, sample.label)
    /\ loss_out.variance_loss = LAMBDA_2 * VarianceNum(criterion1, sample.p)

====
